---- MODULE Spec2Model ----
(***************************************************************************)
(* Guided interview dialogue engine of racer_recap_flask_mvp.py: the       *)
(* in-memory session store, the four route handlers that mutate it         *)
(* (/start, /answer, /finish, /reset) and the generation call sites with   *)
(* their fallbacks.                                                        *)
(*                                                                         *)
(* A text is a sequence of one-character strings.  A fixed literal of the  *)
(* source whose characters no code path inspects (a catalogue question, a  *)
(* canned acknowledgment) is written as a one-symbol text holding the      *)
(* literal; it is non-empty and carries no surrounding whitespace, as the  *)
(* literal itself.                                                         *)
(***************************************************************************)
EXTENDS Integers, Sequences, FiniteSets, TLC

VARIABLES
    client,      \* module-level `client`: "none" (None) or "openai"
    SESSIONS,    \* module-level SESSIONS: sid -> session state
    response,    \* the reply to the request handled last
    calls,       \* history variable: /answer requests handled per sid since its state was (re)initialised
    followups,   \* history variable: times /answer took the follow-up branch, per sid, since its state was (re)initialised
    fn,          \* function-level specifications: the function applied last
    arg,         \* function-level specifications: its input
    ret,         \* function-level specifications: its result
    inflight,    \* concurrent specification: per worker thread, the locals of the /answer request it is handling
    asked,       \* ledger specification: questions issued per sid since /start initialised its state, 0 before any /start
    saves,       \* ledger specification: files written by _save_current_markdown per sid since its state was (re)initialised
    followed     \* ledger specification: follow-up questions issued per sid and stage since its state was (re)initialised

vars == <<client, SESSIONS, response, calls, followups, fn, arg, ret, inflight, asked, saves, followed>>

(***************************************************************************)
(* Bounds                                                                  *)
(***************************************************************************)
MaxTurns == 10        \* /answer requests accepted per session before the model stops growing its history

MaxPad == 2           \* whitespace characters put on either side of an answer given to should_follow_up

Margin == 2           \* how far around the length threshold the answers given to should_follow_up range

MaxHist == 2          \* turns in a history given to call_recap

(***************************************************************************)
(* Text                                                                    *)
(***************************************************************************)
Empty == <<>>

Lit(s) == <<s>>

WHITESPACE == {" ", "\t", "\n"}

IsSpace(c) == c \in WHITESPACE

RECURSIVE LStrip(_)
LStrip(t) == IF t # <<>> /\ IsSpace(Head(t)) THEN LStrip(Tail(t)) ELSE t

RECURSIVE RStrip(_)
RStrip(t) == IF t # <<>> /\ IsSpace(t[Len(t)]) THEN RStrip(SubSeq(t, 1, Len(t) - 1)) ELSE t

\* str.strip()
Strip(t) == RStrip(LStrip(t))

RECURSIVE Join(_, _)
\* sep.join(parts)
Join(parts, sep) ==
    IF parts = <<>> THEN <<>>
    ELSE IF Len(parts) = 1 THEN parts[1]
    ELSE parts[1] \o sep \o Join(Tail(parts), sep)

(***************************************************************************)
(* Characters                                                              *)
(***************************************************************************)
UPPER == <<"A", "B", "C", "D", "E", "F", "G", "H", "I", "J", "K", "L", "M",
           "N", "O", "P", "Q", "R", "S", "T", "U", "V", "W", "X", "Y", "Z">>

LOWER == <<"a", "b", "c", "d", "e", "f", "g", "h", "i", "j", "k", "l", "m",
           "n", "o", "p", "q", "r", "s", "t", "u", "v", "w", "x", "y", "z">>

DIGITS == {"0", "1", "2", "3", "4", "5", "6", "7", "8", "9"}

Range(f) == {f[i] : i \in DOMAIN f}

IsUpper(c) == c \in Range(UPPER)

IsLower(c) == c \in Range(LOWER)

IsAlpha(c) == IsUpper(c) \/ IsLower(c)

\* \w
IsWord(c) == IsAlpha(c) \/ c \in DIGITS \/ c = "_"

ToLower(c) == IF IsUpper(c) THEN LOWER[CHOOSE i \in DOMAIN UPPER : UPPER[i] = c] ELSE c

\* where a greedy \s+ starting at p stops: the last index of the run of
\* whitespace that starts at p, p - 1 when there is none
SpaceRunEnd(t, p) ==
    CHOOSE e \in (p - 1)..Len(t) :
        /\ \A i \in p..e : IsSpace(t[i])
        /\ (e = Len(t) \/ ~IsSpace(t[e + 1]))

\* the same for a run of letters ([A-Z][a-z]+ under re.IGNORECASE)
AlphaRunEnd(t, p) ==
    CHOOSE e \in (p - 1)..Len(t) :
        /\ \A i \in p..e : IsAlpha(t[i])
        /\ (e = Len(t) \/ ~IsAlpha(t[e + 1]))

\* the same for a run of lower-case letters ([a-z]{2,})
LowerRunEnd(t, p) ==
    CHOOSE e \in (p - 1)..Len(t) :
        /\ \A i \in p..e : IsLower(t[i])
        /\ (e = Len(t) \/ ~IsLower(t[e + 1]))

\* whether the literal lit occurs in t at index p, compared case-insensitively
MatchAtCI(t, p, lit) ==
    /\ p + Len(lit) - 1 <= Len(t)
    /\ \A i \in 1..Len(lit) : ToLower(t[p + i - 1]) = ToLower(lit[i])

(***************************************************************************)
(* Storyline catalogue                                                     *)
(***************************************************************************)
\* STORYLINE as written, a 1-based sequence; stage index i of the source is
\* STORYLINE[i + 1] here (see StageAt)
STORYLINE ==
<<
    [id |-> "event",
     variants |-> <<Lit("What event or race is this?"),
                    Lit("Which event is this - and how's the atmosphere out there?"),
                    Lit("Let's start with the event - what event are we talking about?")>>],
    [id |-> "intro",
     variants |-> <<Lit("Let's start with a quick intro - what's your name and what car did you drive?"),
                    Lit("Kick us off with your name and the car you ran."),
                    Lit("Before we dive in, tell me your name and the car you brought to the event.")>>],
    [id |-> "summary",
     variants |-> <<Lit("In a sentence or two, how did the race go overall?"),
                    Lit("Give me a quick overview - how would you sum up the race?"),
                    Lit("Big picture: how did things go out there?")>>],
    [id |-> "highlight",
     variants |-> <<Lit("What was the most exciting moment for you? What made it stand out?"),
                    Lit("Tell me about your favorite moment - what happened?"),
                    Lit("Pick a highlight - what was the best moment out there and why?")>>],
    [id |-> "performance",
     variants |-> <<Lit("How did you feel about your results or timing, and what's one takeaway?"),
                    Lit("Looking at your times/results, how do you feel - and what did you learn?"),
                    Lit("Results-wise, how did it go, and what's something you'll carry forward?")>>],
    [id |-> "challenge",
     variants |-> <<Lit("What was the toughest part of the race, and how did you handle it?"),
                    Lit("Tell me about a hard moment out there - what did you do to get through it?"),
                    Lit("What challenged you most out there, and how did you respond?")>>],
    [id |-> "wrap",
     variants |-> <<Lit("What's something you learned, and what's your goal for the next race?"),
                    Lit("What will you take into your next event?"),
                    Lit("What's a lesson and a plan you'll try next time?")>>],
    [id |-> "tips",
     variants |-> <<Lit("Is there one tip you'd share with other drivers from this event?"),
                    Lit("Got any quick tip you'd pass on to someone running this course next?"),
                    Lit("What's one practical tip you'd give others after this event?")>>],
    [id |-> "closing",
     variants |-> <<Lit("Anything else you want to share before we wrap up the interview?"),
                    Lit("Any shoutouts or final thoughts you want to add?"),
                    Lit("Before we close, is there anything we didn't cover that you'd like to mention?")>>]
>>

\* len(STORYLINE)
N == Len(STORYLINE)

\* STORYLINE[i] of the source, for 0 <= i < N
StageAt(i) == STORYLINE[i + 1]

\* the literal 3 of `stage < (len(STORYLINE) - 3)`
TAIL_EXCLUSION == 3

\* the literal 40 of should_follow_up's length heuristic
FOLLOWUP_MIN_LEN == 40

\* random.choice(STORYLINE[stage_idx]["variants"]) if in range else "":
\* the set of values one call can return
pick_variant(stage_idx) ==
    IF 0 <= stage_idx /\ stage_idx < N
    THEN Range(StageAt(stage_idx).variants)
    ELSE {Empty}

(***************************************************************************)
(* Name extraction                                                         *)
(***************************************************************************)
NAME_PREFIXES == << <<"m", "y", " ", "n", "a", "m", "e", " ", "i", "s">>,
                    <<"i", " ", "a", "m">>,
                    <<"i", "'", "m">> >>

\* [A-Z][a-z]+ under re.IGNORECASE at p: the end of the letter run, 0 if it
\* has fewer than two letters
NameWordEnd(t, p) ==
    LET e == AlphaRunEnd(t, p) IN IF e >= p + 1 THEN e ELSE 0

\* (?:\s+[A-Z][a-z]+) at p: the end of one more word, 0 if there is none
NextNameWordEnd(t, p) ==
    LET s == SpaceRunEnd(t, p) IN
    IF s >= p THEN NameWordEnd(t, s + 1) ELSE 0

\* the first pattern of _regex_name_guess tried at index p: <<first, last>> of
\* group 1, or <<0, 0>> when it does not match there
IntroMatchAt(t, p) ==
    LET hits == {k \in DOMAIN NAME_PREFIXES : MatchAtCI(t, p, NAME_PREFIXES[k])} IN
    IF hits = {} THEN <<0, 0>>
    ELSE LET k  == CHOOSE x \in hits : \A y \in hits : x <= y
             q  == p + Len(NAME_PREFIXES[k])
             s  == SpaceRunEnd(t, q)
             e1 == IF s >= q THEN NameWordEnd(t, s + 1) ELSE 0
             e2 == IF e1 = 0 THEN 0 ELSE NextNameWordEnd(t, e1 + 1)
             e3 == IF e2 = 0 THEN 0 ELSE NextNameWordEnd(t, e2 + 1)
         IN  IF e1 = 0 THEN <<0, 0>>
             ELSE <<s + 1, IF e3 # 0 THEN e3 ELSE IF e2 # 0 THEN e2 ELSE e1>>

\* \b([A-Z][a-z]{2,})\b tried at index p: the end of the word, 0 if no match
CapWordEnd(t, p) ==
    IF /\ IsUpper(t[p])
       /\ (p = 1 \/ ~IsWord(t[p - 1]))
    THEN LET e == LowerRunEnd(t, p + 1) IN
         IF e >= p + 2 /\ (e = Len(t) \/ ~IsWord(t[e + 1])) THEN e ELSE 0
    ELSE 0

\* a slip that returns m.group(0), the introduction with the name, for group(1)
_regex_name_guess_group0(text) ==
    LET m  == {p \in 1..Len(text) : IntroMatchAt(text, p) # <<0, 0>>}
        m2 == {p \in 1..Len(text) : CapWordEnd(text, p) # 0}
    IN  IF m # {}
        THEN LET p == CHOOSE x \in m : \A y \in m : x <= y
                 g == IntroMatchAt(text, p)
             IN  Strip(SubSeq(text, p, g[2]))
        ELSE IF m2 # {}
        THEN LET p == CHOOSE x \in m2 : \A y \in m2 : x <= y
             IN  Strip(SubSeq(text, p, CapWordEnd(text, p)))
        ELSE Empty

_regex_name_guess(text) ==
    LET m  == {p \in 1..Len(text) : IntroMatchAt(text, p) # <<0, 0>>}
        m2 == {p \in 1..Len(text) : CapWordEnd(text, p) # 0}
    IN  IF m # {}
        THEN LET p == CHOOSE x \in m : \A y \in m : x <= y
                 g == IntroMatchAt(text, p)
             IN  Strip(SubSeq(text, g[1], g[2]))
        ELSE IF m2 # {}
        THEN LET p == CHOOSE x \in m2 : \A y \in m2 : x <= y
             IN  Strip(SubSeq(text, p, CapWordEnd(text, p)))
        ELSE Empty

(***************************************************************************)
(* Generation call sites.  With client = "none" each returns its fallback; *)
(* with a client the collaborator's reply is any value, so each operator   *)
(* is the set of outcomes one call can have; raised marks an exception     *)
(* that leaves the function.                                               *)
(***************************************************************************)
\* replies of the collaborator used to exercise the parsing around it
LLM_NAMES == {Empty, <<" ", "S", "a", "m", "!">>}

LLM_QUESTION == Lit("<generated question>")

LLM_ACK == Lit("<generated ack>")

LLM_TITLE == Lit("<generated title>")

LLM_RECAP == Lit("<generated recap>")

_model_available == client # "none"

\* re.sub(r"[^A-Za-z \-']", "", name).strip()
CleanName(name) ==
    Strip(SelectSeq(name, LAMBDA c : IsAlpha(c) \/ c \in {" ", "-", "'"}))

extract_driver_name(answer_text) ==
    IF answer_text = Empty THEN {Empty}
    ELSE IF ~_model_available THEN {_regex_name_guess(answer_text)}
    ELSE {CleanName(n) : n \in LLM_NAMES} \cup {_regex_name_guess(answer_text)}

\* a slip that measures the answer without trimming it
\* what one call of the collaborator does: it raises, replies with something
\* that is not the expected JSON object, or replies with the decision
COLLABORATOR_REPLIES == {"raises", "malformed", "true", "false"}

\* should_follow_up when the collaborator, if there is one, behaves as reply:
\* the except branch and a reply without the key both give False
should_follow_up_given(answer_text, reply) ==
    IF ~_model_available
    THEN Len(Strip(answer_text)) > FOLLOWUP_MIN_LEN
    ELSE reply = "true"

should_follow_up_untrimmed(answer_text) ==
    IF ~_model_available
    THEN {Len(answer_text) > FOLLOWUP_MIN_LEN}
    ELSE BOOLEAN

should_follow_up(answer_text) ==
    IF ~_model_available
    THEN {Len(Strip(answer_text)) > FOLLOWUP_MIN_LEN}
    ELSE {should_follow_up_given(answer_text, reply) : reply \in COLLABORATOR_REPLIES}

\* {"ack", "next_question"}.  With a client: the reply's two fields, a reply
\* whose fields are empty, a reply without the keys, or the except branch
call_interviewer(history, stage_idx) ==
    IF ~_model_available
    THEN {[ack |-> Lit("Got it - thanks for sharing."), next_question |-> v] :
             v \in pick_variant(stage_idx)}
    ELSE {[ack |-> LLM_ACK, next_question |-> LLM_QUESTION],
          [ack |-> Empty, next_question |-> Empty]}
         \cup {[ack |-> a, next_question |-> v] :
                  a \in {Empty, Lit("Thanks for sharing.")}, v \in pick_variant(stage_idx)}

\* [raised, question]
call_followup(last_q, last_a) ==
    IF ~_model_available
    THEN {[raised |-> FALSE,
           question |-> Lit("As a follow-up, what specific detail or feeling stands out from that moment?")]}
    ELSE {[raised |-> TRUE, question |-> Empty],
          [raised |-> FALSE, question |-> Lit("As a follow-up, could you tell me more about that?")],
          [raised |-> FALSE, question |-> Lit("One quick follow-up:") \o <<" ">> \o LLM_QUESTION]}

(***************************************************************************)
(* Answers submitted to /answer                                            *)
(***************************************************************************)
ShortAnswer == <<" ", "M", "y", " ", "n", "a", "m", "e", " ", "i", "s", " ", "A", "l", "e", "x", ",",
                 " ", "d", "r", "i", "v", "i", "n", "g", " ", "a", " ", "C", "i", "v", "i", "c">>

LongAnswer == <<"t", "h", "e", " ", "r", "e", "a", "r", " ", "s", "t", "e", "p", "p", "e", "d", " ",
                "o", "u", "t", " ", "i", "n", " ", "t", "u", "r", "n", " ", "t", "w", "o", " ",
                "a", "n", "d", " ", "c", "o", "s", "t", " ", "m", "e", " ", "a", " ",
                "s", "e", "c", "o", "n", "d", " ">>

\* an answer that quotes a question
QuotedAnswer == <<"I", " ", "k", "e", "p", "t", " ", "a", "s", "k", "i", "n", "g", " ", "m", "y",
                  "s", "e", "l", "f", " ", "\"", "w", "h", "y", " ", "n", "o", "w", "?", "\"", " ",
                  "t", "h", "r", "o", "u", "g", "h", " ", "t", "h", "e", " ", "w", "h", "o", "l",
                  "e", " ", "l", "a", "s", "t", " ", "l", "a", "p">>

(***************************************************************************)
(* _sanitize_ack and the follow-up acknowledgment                          *)
(***************************************************************************)
PHRASE_YOU_SHOULD ==
    <<"y", "o", "u", " ", "s", "h", "o", "u", "l", "d">>

PHRASE_REMEMBER_TO ==
    <<"r", "e", "m", "e", "m", "b", "e", "r", " ", "t", "o">>

PHRASE_MAKE_SURE ==
    <<"m", "a", "k", "e", " ", "s", "u", "r", "e">>

PHRASE_BE_SURE_TO ==
    <<"b", "e", " ", "s", "u", "r", "e", " ", "t", "o">>

PHRASE_PRO_TIP ==
    <<"p", "r", "o", " ", "t", "i", "p">>

THAT_PART_ABOUT ==
    <<"T", "h", "a", "t", " ", "p", "a", "r", "t", " ", "a", "b", "o", "u",
      "t", " ">>

HAS_ME_CURIOUS ==
    <<" ", "h", "a", "s", " ", "m", "e", " ", "c", "u", "r", "i", "o", "u",
      "s", ".">>

THAT_NOTE_ABOUT ==
    <<"T", "h", "a", "t", " ", "n", "o", "t", "e", " ", "a", "b", "o", "u",
      "t", " ">>

HAS_ME_INTERESTED ==
    <<" ", "h", "a", "s", " ", "m", "e", " ", "i", "n", "t", "e", "r", "e",
      "s", "t", "e", "d", ".">>

LLM_ACK_QUESTION ==
    <<"R", "e", "a", "l", "l", "y", "?">>

SENTENCE_END == {".", "!", "?"}

RECURSIVE SplitSentences(_)
\* re.split(r"(?<=[.!?])\s+", t): cut at each run of whitespace that follows
\* a ".", "!" or "?"; the run itself is dropped
SplitSentences(t) ==
    LET cuts == {p \in 2..Len(t) : IsSpace(t[p]) /\ t[p - 1] \in SENTENCE_END} IN
    IF cuts = {} THEN <<t>>
    ELSE LET p == CHOOSE c \in cuts : \A d \in cuts : c <= d
             e == SpaceRunEnd(t, p)
         IN  <<SubSeq(t, 1, p - 1)>> \o SplitSentences(SubSeq(t, e + 1, Len(t)))

RECURSIVE CollapseBangsIn(_, _, _)
\* what re.sub(r"!+", ".", t) leaves of t[lo..hi]: one "." for the last "!"
\* of each run, nothing for the others (the range is halved at each step)
CollapseBangsIn(t, lo, hi) ==
    IF lo > hi THEN <<>>
    ELSE IF lo = hi
         THEN IF t[lo] # "!" THEN <<t[lo]>>
              ELSE IF lo = Len(t) \/ t[lo + 1] # "!" THEN <<".">> ELSE <<>>
         ELSE CollapseBangsIn(t, lo, (lo + hi) \div 2)
                  \o CollapseBangsIn(t, (lo + hi) \div 2 + 1, hi)

\* re.sub(r"!+", ".", t)
CollapseBangs(t) == CollapseBangsIn(t, 1, Len(t))

PREACHY_PHRASES ==
    <<PHRASE_YOU_SHOULD, PHRASE_REMEMBER_TO, PHRASE_MAKE_SURE, PHRASE_BE_SURE_TO, PHRASE_PRO_TIP>>

\* where \bphrase\b.*?(?:\.|$) matches from index p (re.IGNORECASE): the index
\* of the "." that ends the match, Len(t) when it runs to the end of the
\* text, 0 when there is no match at p ("." does not match a newline, and the
\* text given has no trailing whitespace, so $ is the end of the text)
PreachyEnd(t, phrase, p) ==
    LET s == p + Len(phrase)
        stops == {q \in s..Len(t) : t[q] \in {".", "\n"}}
        q == CHOOSE c \in stops : \A d \in stops : c <= d
    IN  IF ~ /\ MatchAtCI(t, p, phrase)
             /\ (p = 1 \/ ~IsWord(t[p - 1]))
             /\ (s > Len(t) \/ ~IsWord(t[s]))
        THEN 0
        ELSE IF stops = {} THEN Len(t)
        ELSE IF t[q] = "." THEN q
        ELSE 0

RECURSIVE RemovePreachy(_, _, _)
\* re.sub(pattern, "", t) read from index p on: every match is removed, left
\* to right, the scan resuming after each match
RemovePreachy(t, phrase, p) ==
    LET starts == {c \in p..Len(t) : PreachyEnd(t, phrase, c) # 0} IN
    IF starts = {} THEN SubSeq(t, p, Len(t))
    ELSE LET m == CHOOSE c \in starts : \A d \in starts : c <= d
         IN  SubSeq(t, p, m - 1) \o RemovePreachy(t, phrase, PreachyEnd(t, phrase, m) + 1)

RECURSIVE RemoveAllPreachy(_, _)
\* the loop over preachy_patterns from the k-th pattern on, each substitution
\* followed by strip()
RemoveAllPreachy(t, k) ==
    IF k > Len(PREACHY_PHRASES) THEN t
    ELSE RemoveAllPreachy(Strip(RemovePreachy(t, PREACHY_PHRASES[k], 1)), k + 1)

RECURSIVE CollapseSpacesIn(_, _, _)
\* what re.sub(r"\s{2,}", " ", t) leaves of t[lo..hi]: one space for the
\* first character of a run of two or more whitespace characters, nothing for
\* the rest of the run, every other character as it is
CollapseSpacesIn(t, lo, hi) ==
    IF lo > hi THEN <<>>
    ELSE IF lo = hi
         THEN IF ~IsSpace(t[lo]) THEN <<t[lo]>>
              ELSE IF lo > 1 /\ IsSpace(t[lo - 1]) THEN <<>>
              ELSE IF lo < Len(t) /\ IsSpace(t[lo + 1]) THEN <<" ">>
              ELSE <<t[lo]>>
         ELSE CollapseSpacesIn(t, lo, (lo + hi) \div 2)
                  \o CollapseSpacesIn(t, (lo + hi) \div 2 + 1, hi)

\* re.sub(r"\s{2,}", " ", t)
CollapseSpaces(t) == CollapseSpacesIn(t, 1, Len(t))

ACK_MAX_LEN == 280

Truncate(t, n) == SubSeq(t, 1, IF Len(t) < n THEN Len(t) ELSE n)

_sanitize_ack(text) ==
    IF text = <<>> THEN <<>>
    ELSE LET parts == SplitSentences(Strip(text))
             keep == SelectSeq(parts, LAMBDA part : "?" \notin Range(part))
             cleaned == CollapseBangs(Strip(Join(keep, <<" ">>)))
         IN  Truncate(Strip(CollapseSpaces(RemoveAllPreachy(cleaned, 1))), ACK_MAX_LEN)

RECURSIVE SquashSpacesIn(_, _, _)
\* what " ".join(t.split()) leaves of t[lo..hi] for a stripped t: one space
\* for the first character of each run of whitespace
SquashSpacesIn(t, lo, hi) ==
    IF lo > hi THEN <<>>
    ELSE IF lo = hi
         THEN IF ~IsSpace(t[lo]) THEN <<t[lo]>>
              ELSE IF lo > 1 /\ IsSpace(t[lo - 1]) THEN <<>>
              ELSE <<" ">>
         ELSE SquashSpacesIn(t, lo, (lo + hi) \div 2)
                  \o SquashSpacesIn(t, (lo + hi) \div 2 + 1, hi)

\* " ".join(t.split()) for a stripped t
SquashSpaces(t) == SquashSpacesIn(t, 1, Len(t))

\* t.split(".")[0]
BeforeFirstDot(t) ==
    LET dots == {p \in 1..Len(t) : t[p] = "."} IN
    IF dots = {} THEN t
    ELSE SubSeq(t, 1, (CHOOSE c \in dots : \A d \in dots : c <= d) - 1)

CORE_MAX_LEN == 60

\* the acknowledgment built without the collaborator
FollowupAckFallback(answer_text) ==
    _sanitize_ack(THAT_PART_ABOUT \o Truncate(SquashSpaces(Strip(answer_text)), CORE_MAX_LEN)
                      \o HAS_ME_CURIOUS)

\* the acknowledgment built in the except branch
FollowupAckRescue(answer_text) ==
    _sanitize_ack(THAT_NOTE_ABOUT \o Truncate(BeforeFirstDot(Strip(answer_text)), CORE_MAX_LEN)
                      \o HAS_ME_INTERESTED)

\* values of the "ack" field in the collaborator's reply to the follow-up
\* acknowledgment request: a statement, a question, nothing
LLM_FOLLOWUP_ACKS == {LLM_ACK, LLM_ACK_QUESTION, Empty}

\* the answers submitted, as sent and as answer() strips them
SUBMITTED_ANSWERS ==
    LET sent == {ShortAnswer, LongAnswer, QuotedAnswer} IN sent \cup {Strip(a) : a \in sent}

\* FollowupAckFallback, FollowupAckRescue and _sanitize_ack tabulated over the
\* texts they are applied to, so that each value is computed once
FALLBACK_ACK_OF == [a \in SUBMITTED_ANSWERS |-> FollowupAckFallback(a)]

RESCUE_ACK_OF == [a \in SUBMITTED_ANSWERS |-> FollowupAckRescue(a)]

SANITIZED_ACK_OF == [ack \in LLM_FOLLOWUP_ACKS |-> _sanitize_ack(Strip(ack))]

\* the acknowledgment that bridges into a follow-up
call_followup_ack(answer_text, upcoming_question) ==
    IF ~_model_available
    THEN {IF answer_text \in SUBMITTED_ANSWERS THEN FALLBACK_ACK_OF[answer_text]
          ELSE FollowupAckFallback(answer_text)}
    ELSE {IF Strip(ack) # <<>> THEN SANITIZED_ACK_OF[ack]
          ELSE IF answer_text \in SUBMITTED_ANSWERS THEN RESCUE_ACK_OF[answer_text]
          ELSE FollowupAckRescue(answer_text) : ack \in LLM_FOLLOWUP_ACKS}

\* a slip that leaves out the turns answered with nothing
FallbackRecapSkippingBlank(history) ==
    LET kept == SelectSeq(history, LAMBDA t : t.a # Empty) IN
    Join([i \in 1..Len(kept) |-> kept[i].q \o <<"\n">> \o kept[i].a],
         <<"\n", "\n">>)

\* the body of the fallback branch: "\n\n".join(f"{t['q']}\n{t['a']}" for t in history)
FallbackRecap(history) ==
    Join([i \in 1..Len(history) |-> history[i].q \o <<"\n">> \o history[i].a],
         <<"\n", "\n">>)

\* [raised, title, recap]
call_recap(history) ==
    IF ~_model_available
    THEN {[raised |-> FALSE, title |-> Lit("Race Day Recap"), recap |-> FallbackRecap(history)]}
    ELSE {[raised |-> TRUE, title |-> Empty, recap |-> Empty],
          [raised |-> FALSE, title |-> LLM_TITLE, recap |-> LLM_RECAP],
          [raised |-> FALSE, title |-> Lit("Race Recap"), recap |-> Empty],
          [raised |-> FALSE, title |-> Lit("Race Recap"), recap |-> Lit("Thanks for the interview!")]}

\* [raised, error, filename, title, recap]: its call_recap raises (a generation
\* error), or the recap is built and then mkdir or write_text raises (a
\* persistence error), or the file is written; title and recap are the
\* artifact its call_recap returned, the one that goes into the file
_save_current_markdown(state) ==
    {[raised |-> TRUE, error |-> "generation", filename |-> Empty,
      title |-> Empty, recap |-> Empty] :
        r \in {x \in call_recap(state.history) : x.raised}} \cup
    {[raised |-> TRUE, error |-> "persistence", filename |-> Empty,
      title |-> Empty, recap |-> Empty]} \cup
    {[raised |-> FALSE, error |-> "none", filename |-> Lit("interview_<name>_<ts>.md"),
      title |-> r.title, recap |-> r.recap] :
        r \in {x \in call_recap(state.history) : ~x.raised}}

(***************************************************************************)
(* Session store and replies                                               *)
(***************************************************************************)
SIDS == {"s1"}

\* request bodies of /answer.  Without a client the length of the answer decides
\* the follow-up, so both lengths are submitted; with a client the reply of the
\* collaborator decides it, whatever the text
Answers == IF client = "none" THEN {ShortAnswer, LongAnswer} ELSE {ShortAnswer}

Questions == {Lit("<question echoed by the page>")}

InitialState ==
    [stage |-> 0, history |-> <<>>, followup_pending |-> FALSE, driver_name |-> Empty]

ensure_state(S, sid) ==
    IF sid \in DOMAIN S THEN S ELSE [x \in DOMAIN S \cup {sid} |-> IF x = sid THEN InitialState ELSE S[x]]

\* SESSIONS.pop(sid, None)
Pop(S, sid) == [x \in DOMAIN S \ {sid} |-> S[x]]

NoReply ==
    [op |-> "none", sid |-> "none", status |-> 0, site |-> "none", keys |-> {},
     done |-> FALSE, ack |-> Empty, question |-> Empty, stage |-> 0,
     total_stages |-> 0, title |-> Empty, recap |-> Empty,
     error |-> "none", absent_before |-> FALSE,
     stored |-> FALSE, stored_title |-> Empty, stored_recap |-> Empty, recaps |-> 0]

\* an exception left the handler: Flask answers 500.  error names what raised
\* it; absent_before tells whether SESSIONS held no state for sid when the
\* request arrived
Failure(op, sid, error) ==
    [NoReply EXCEPT !.op = op, !.sid = sid, !.status = 500, !.site = "raise",
                    !.error = error, !.absent_before = sid \notin DOMAIN SESSIONS]

Reply(op, sid, site) ==
    [NoReply EXCEPT !.op = op, !.sid = sid, !.status = 200, !.site = site,
                    !.absent_before = sid \notin DOMAIN SESSIONS]

\* the exception that leaves a handler which saves and then recaps: the save's
\* own, else the one of the second call_recap
Raised(saved, recap) == IF saved.raised THEN saved.error ELSE "generation"

\* what handling the request did besides replying: stored tells whether
\* _save_current_markdown wrote its file, stored_title and stored_recap are the
\* artifact in it, recaps counts the calls of call_recap (one inside the save,
\* one by the handler once the save has returned)
Persisted(r, saved) ==
    [r EXCEPT !.stored = ~saved.raised, !.stored_title = saved.title,
              !.stored_recap = saved.recap, !.recaps = IF saved.raised THEN 1 ELSE 2]

\* jsonify({"done": True, "saved": True, "filename": ..., **recap})
DoneReply(op, sid, site, recap) ==
    [Reply(op, sid, site) EXCEPT !.done = TRUE, !.title = recap.title, !.recap = recap.recap,
                                 !.keys = {"done", "saved", "filename", "title", "recap"}]

\* jsonify({"done": False, "ack": ..., "question": ..., "stage": ...})
TurnReply(op, sid, site, ack, question, stage) ==
    [Reply(op, sid, site) EXCEPT !.ack = ack, !.question = question, !.stage = stage,
                                 !.keys = {"done", "ack", "question", "stage"}]

WithTotal(r) == [r EXCEPT !.total_stages = N, !.keys = @ \cup {"total_stages"}]

\* jsonify({"ack": "", "question": q, "stage": ..., "total_stages": ...})
StartReply(sid, q, stage) ==
    [WithTotal(TurnReply("start", sid, "start", Empty, q, stage)) EXCEPT
        !.keys = {"ack", "question", "stage", "total_stages"}]

Restarted(f, sid) == [f EXCEPT ![sid] = 0]

\* the threads of the development server: app.run serves each request in a
\* thread of its own
Threads == {"w1", "w2"}

\* a thread that is handling no request, and the locals of answer() otherwise:
\* pc is the position in the handler, wrote what its last branch stored
Idle ==
    [pc |-> "idle", sid |-> "none", user_answer |-> Empty, last_q |-> Empty,
     stage |-> 0, followup_pending |-> FALSE, wrote |-> "nothing"]

NoRequests == [t \in Threads |-> Idle]

(***************************************************************************)
(* /start                                                                  *)
(***************************************************************************)
\* a slip that restarts without clearing the captured name
StartKeepingName(sid) ==
    /\ SESSIONS' = [ensure_state(SESSIONS, sid) EXCEPT
                        ![sid] = [InitialState EXCEPT !.driver_name = ensure_state(SESSIONS, sid)[sid].driver_name]]
    /\ \E q \in pick_variant(0) :
         response' = StartReply(sid, q, SESSIONS'[sid].stage)
    /\ calls' = Restarted(calls, sid)
    /\ followups' = Restarted(followups, sid)
    /\ UNCHANGED <<client, fn, arg, ret, inflight>>

Start(sid) ==
    /\ SESSIONS' = [ensure_state(SESSIONS, sid) EXCEPT ![sid] = InitialState]
    /\ \E q \in pick_variant(0) :
         response' = StartReply(sid, q, SESSIONS'[sid].stage)
    /\ calls' = Restarted(calls, sid)
    /\ followups' = Restarted(followups, sid)
    /\ UNCHANGED <<client, fn, arg, ret, inflight>>

(***************************************************************************)
(* /reset                                                                  *)
(***************************************************************************)
\* a slip that pops without a default: SESSIONS.pop(sid) raises on an absent key
ResetStrict(sid) ==
    /\ SESSIONS' = Pop(SESSIONS, sid)
    /\ response' = IF sid \in DOMAIN SESSIONS
                   THEN [Reply("reset", sid, "reset") EXCEPT !.keys = {"ok"}]
                   ELSE Failure("reset", sid, "KeyError")
    /\ calls' = Restarted(calls, sid)
    /\ followups' = Restarted(followups, sid)
    /\ UNCHANGED <<client, fn, arg, ret, inflight>>

\* a slip that resets with SESSIONS.clear()
ResetEverySession(sid) ==
    /\ SESSIONS' = [x \in {} |-> InitialState]
    /\ response' = [Reply("reset", sid, "reset") EXCEPT !.keys = {"ok"}]
    /\ calls' = Restarted(calls, sid)
    /\ followups' = Restarted(followups, sid)
    /\ UNCHANGED <<client, fn, arg, ret, inflight>>

Reset(sid) ==
    /\ SESSIONS' = Pop(SESSIONS, sid)
    /\ response' = [Reply("reset", sid, "reset") EXCEPT !.keys = {"ok"}]
    /\ calls' = Restarted(calls, sid)
    /\ followups' = Restarted(followups, sid)
    /\ UNCHANGED <<client, fn, arg, ret, inflight>>

(***************************************************************************)
(* /finish                                                                 *)
(***************************************************************************)
\* a slip that looks the state up with SESSIONS[sid], which raises on an
\* absent key, where finish_now calls ensure_state
FinishStrict(sid) ==
    IF sid \notin DOMAIN SESSIONS
    THEN /\ response' = Failure("finish", sid, "KeyError")
         /\ UNCHANGED <<client, SESSIONS, calls, followups, fn, arg, ret, inflight>>
    ELSE LET state == SESSIONS[sid]
         IN  /\ \E saved \in _save_current_markdown(state), recap \in call_recap(state.history) :
                  IF saved.raised \/ recap.raised
                  THEN /\ UNCHANGED SESSIONS
                       /\ response' = Persisted(Failure("finish", sid, Raised(saved, recap)), saved)
                  ELSE /\ SESSIONS' = [SESSIONS EXCEPT ![sid].followup_pending = FALSE]
                       /\ response' = Persisted(DoneReply("finish", sid, "finish", recap), saved)
             /\ UNCHANGED <<client, calls, followups, fn, arg, ret, inflight>>

\* a slip that empties the transcript once it has been saved
FinishDroppingHistory(sid) ==
    LET S == ensure_state(SESSIONS, sid)
        state == S[sid]
    IN  /\ \E saved \in _save_current_markdown(state), recap \in call_recap(state.history) :
             IF saved.raised \/ recap.raised
             THEN /\ SESSIONS' = S
                  /\ response' = Persisted(Failure("finish", sid, Raised(saved, recap)), saved)
             ELSE /\ SESSIONS' = [S EXCEPT ![sid].followup_pending = FALSE, ![sid].history = <<>>]
                  /\ response' = Persisted(DoneReply("finish", sid, "finish", recap), saved)
        /\ UNCHANGED <<client, calls, followups, fn, arg, ret, inflight>>

Finish(sid) ==
    LET S == ensure_state(SESSIONS, sid)
        state == S[sid]
    IN  /\ \E saved \in _save_current_markdown(state), recap \in call_recap(state.history) :
             IF saved.raised \/ recap.raised
             THEN /\ SESSIONS' = S
                  /\ response' = Persisted(Failure("finish", sid, Raised(saved, recap)), saved)
             ELSE /\ SESSIONS' = [S EXCEPT ![sid].followup_pending = FALSE]
                  /\ response' = Persisted(DoneReply("finish", sid, "finish", recap), saved)
        /\ UNCHANGED <<client, calls, followups, fn, arg, ret, inflight>>

(***************************************************************************)
(* /answer                                                                 *)
(***************************************************************************)
\* a slip that lets the window reach one stage into the tail
allow_followup_inclusive(stage) == stage <= (N - TAIL_EXCLUSION)

allow_followup(stage) == stage < (N - TAIL_EXCLUSION)

\* a slip that wraps the stage index round the catalogue
NextStageWrapped(stage) == (stage + 1) % N

NextStage(stage) == stage + 1

\* last_q: the question recorded with the answer; v is what pick_variant(stage) returns
last_question(stage, shown_question, v) ==
    LET last_q == IF shown_question # Empty THEN shown_question
                  ELSE IF stage >= 0 THEN v ELSE Empty
    IN  IF stage < N /\ last_q = Empty THEN StageAt(stage).variants[1] ELSE last_q

\* a slip that extracts a name at the intro stage even when one is stored
NameOutcomesUnguarded(state, user_answer) ==
    IF /\ 0 <= state.stage /\ state.stage < N
       /\ StageAt(state.stage).id = "intro"
    THEN extract_driver_name(user_answer)
    ELSE {Empty}

\* the names the intro-stage block can store; Empty stores nothing
NameOutcomes(state, user_answer) ==
    IF /\ 0 <= state.stage /\ state.stage < N
       /\ StageAt(state.stage).id = "intro"
       /\ state.driver_name = Empty
    THEN extract_driver_name(user_answer)
    ELSE {Empty}

\* a slip that drops a turn repeating the one before it
RecordedUnlessRepeated(history, last_q, user_answer) ==
    IF history # <<>> /\ history[Len(history)] = [q |-> last_q, a |-> user_answer]
    THEN history
    ELSE Append(history, [q |-> last_q, a |-> user_answer])

\* a slip that records the turn with history.insert(0, ...)
RecordedAtFront(history, last_q, user_answer) == <<[q |-> last_q, a |-> user_answer]>> \o history

\* state["history"].append({"q": last_q, "a": user_answer})
Recorded(history, last_q, user_answer) == Append(history, [q |-> last_q, a |-> user_answer])

\* the terminal branch shared by case 1 and case 3: save, recap, reply
Complete(sid, S, state, site, total) ==
    /\ SESSIONS' = [S EXCEPT ![sid] = state]
    /\ \E saved \in _save_current_markdown(state), recap \in call_recap(state.history) :
         response' = Persisted(IF saved.raised \/ recap.raised
                               THEN Failure("answer", sid, Raised(saved, recap))
                               ELSE IF total THEN WithTotal(DoneReply("answer", sid, site, recap))
                               ELSE DoneReply("answer", sid, site, recap),
                               saved)

\* the non-terminal branch shared by case 1 and case 3: ask the next stage's question
Proceed(sid, S, state, site, total) ==
    /\ SESSIONS' = [S EXCEPT ![sid] = state]
    /\ \E result \in call_interviewer(state.history, state.stage) :
         response' = IF total
                     THEN WithTotal(TurnReply("answer", sid, site, result.ack, result.next_question, state.stage))
                     ELSE TurnReply("answer", sid, site, result.ack, result.next_question, state.stage)

\* a slip that advances without clearing the pending flag
AnswerFollowupReplyStale(sid, S, state) ==
    LET next_stage == NextStage(state.stage)
        advanced == [state EXCEPT !.stage = next_stage]
    IN  /\ state.followup_pending
        /\ IF next_stage >= N
           THEN Complete(sid, S, advanced, "case1_done", TRUE)
           ELSE Proceed(sid, S, advanced, "case1_next", TRUE)
        /\ UNCHANGED followups

\* Case 1: replying to a follow-up -> advance storyline
AnswerFollowupReply(sid, S, state) ==
    LET next_stage == NextStage(state.stage)
        advanced == [state EXCEPT !.followup_pending = FALSE, !.stage = next_stage]
    IN  /\ state.followup_pending
        /\ IF next_stage >= N
           THEN Complete(sid, S, advanced, "case1_done", TRUE)
           ELSE Proceed(sid, S, advanced, "case1_next", TRUE)
        /\ UNCHANGED followups

\* a slip that asks follow-ups at every stage, the tail included
AnswerFollowupAnyStage(sid, S, state, last_q, user_answer) ==
    /\ ~state.followup_pending
    /\ TRUE \in should_follow_up(user_answer)
    /\ \E f \in call_followup(last_q, user_answer) :
         IF f.raised
         THEN /\ SESSIONS' = [S EXCEPT ![sid] = state]
              /\ response' = Failure("answer", sid, "generation")
         ELSE /\ SESSIONS' = [S EXCEPT ![sid] = [state EXCEPT !.followup_pending = TRUE]]
              /\ \E ack_line \in call_followup_ack(user_answer, f.question) :
                   response' = TurnReply("answer", sid, "case2_followup", ack_line,
                                         f.question, state.stage)
    /\ followups' = [followups EXCEPT ![sid] = @ + 1]

\* Case 2: the oracle asks for a follow-up inside the eligibility window
AnswerFollowup(sid, S, state, last_q, user_answer) ==
    /\ ~state.followup_pending
    /\ allow_followup(state.stage)
    /\ TRUE \in should_follow_up(user_answer)
    /\ \E f \in call_followup(last_q, user_answer) :
         IF f.raised
         THEN /\ SESSIONS' = [S EXCEPT ![sid] = state]
              /\ response' = Failure("answer", sid, "generation")
         ELSE /\ SESSIONS' = [S EXCEPT ![sid] = [state EXCEPT !.followup_pending = TRUE]]
              /\ \E ack_line \in call_followup_ack(user_answer, f.question) :
                   response' = TurnReply("answer", sid, "case2_followup", ack_line,
                                         f.question, state.stage)
    /\ followups' = [followups EXCEPT ![sid] = @ + 1]

\* Case 3: no follow-up -> move to next main stage
AnswerAdvance(sid, S, state, user_answer) ==
    LET next_stage == NextStage(state.stage)
        advanced == [state EXCEPT !.stage = next_stage, !.followup_pending = FALSE]
    IN  /\ ~state.followup_pending
        /\ ~allow_followup(state.stage) \/ FALSE \in should_follow_up(user_answer)
        /\ IF next_stage >= N
           THEN Complete(sid, S, advanced, "case3_done", FALSE)
           ELSE Proceed(sid, S, advanced, "case3_next", FALSE)
        /\ UNCHANGED followups

Answer(sid, raw_answer, raw_question) ==
    LET user_answer == Strip(raw_answer)
        shown_question == Strip(raw_question)
        S == ensure_state(SESSIONS, sid)
        state == S[sid]
    IN  \E v \in pick_variant(state.stage), name \in NameOutcomes(state, user_answer) :
          LET last_q == last_question(state.stage, shown_question, v)
              recorded == [state EXCEPT
                              !.history = Recorded(@, last_q, user_answer),
                              !.driver_name = IF name # Empty THEN name ELSE @]
          IN  /\ \/ AnswerFollowupReply(sid, S, recorded)
                 \/ AnswerFollowup(sid, S, recorded, last_q, user_answer)
                 \/ AnswerAdvance(sid, S, recorded, user_answer)
              /\ calls' = [calls EXCEPT ![sid] = @ + 1]
              /\ UNCHANGED <<client, fn, arg, ret, inflight>>

(***************************************************************************)
(* The service: requests handled one at a time                             *)
(***************************************************************************)
Present(sid) == sid \in DOMAIN SESSIONS

\* no follow-up issued yet at any stage
NoFollowUps == [i \in 0..(N - 1) |-> 0]

Turns(sid) == IF Present(sid) THEN Len(SESSIONS[sid].history) ELSE 0

Init ==
    /\ client \in {"none", "openai"}
    /\ SESSIONS = [x \in {} |-> InitialState]
    /\ response = NoReply
    /\ calls = [x \in SIDS |-> 0]
    /\ followups = [x \in SIDS |-> 0]
    /\ fn = "none"
    /\ arg = Empty
    /\ ret = Empty
    /\ inflight = NoRequests
    /\ asked = [x \in SIDS |-> 0]
    /\ saves = [x \in SIDS |-> 0]
    /\ followed = [x \in SIDS |-> NoFollowUps]

\* the ledger of questions and files is kept by SpecLedger only
NoLedger == UNCHANGED <<asked, saves, followed>>

Next ==
    \E sid \in SIDS :
        \/ Start(sid) /\ NoLedger
        \/ Reset(sid) /\ NoLedger
        \/ Finish(sid) /\ NoLedger
        \/ \E a \in Answers, q \in Questions :
             Turns(sid) < MaxTurns /\ Answer(sid, a, q) /\ NoLedger

Spec == Init /\ [][Next]_vars

(***************************************************************************)
(* Properties of the dialogue state machine                                *)
(***************************************************************************)
\* the state /answer works on: the stored one, or the one ensure_state creates
Before(sid) == IF Present(sid) THEN SESSIONS[sid] ELSE InitialState

\* the step just taken handled an /answer request of sid
AnswerStep(sid) == response'.op = "answer" /\ response'.sid = sid

LastTurn(sid) == SESSIONS[sid].history[Len(SESSIONS[sid].history)]

\* C1: handling /answer never lowers the session's stage.
C1_StageNeverDecreases ==
    [][\A sid \in SIDS : AnswerStep(sid) => SESSIONS'[sid].stage >= Before(sid).stage]_vars

C1_Witness ==
    \E sid \in SIDS :
        /\ Present(sid) /\ response.op = "answer"
        /\ followups[sid] = 1 /\ SESSIONS[sid].stage = 2

\* C2: once the stage has reached N, a further /answer leaves stage, history,
\* followup_pending and driver_name as they were and does not complete again.
C2_AnswerAfterCompleteIsNoOp ==
    [][\A sid \in SIDS :
          (AnswerStep(sid) /\ Present(sid) /\ SESSIONS[sid].stage >= N)
              => (SESSIONS'[sid] = SESSIONS[sid] /\ ~response'.done)]_vars

\* C3: an /answer handled while followup_pending is set clears the flag and
\* advances the stage by exactly one, and never replies with another follow-up.
C3_FollowupReplyAdvances ==
    [][\A sid \in SIDS :
          (AnswerStep(sid) /\ Present(sid) /\ SESSIONS[sid].followup_pending)
              => /\ ~SESSIONS'[sid].followup_pending
                 /\ SESSIONS'[sid].stage = SESSIONS[sid].stage + 1
                 /\ response'.site # "case2_followup"]_vars

\* a follow-up was answered with a text the length heuristic would follow up on
C3_Witness ==
    \E sid \in SIDS :
        /\ Present(sid) /\ client = "none"
        /\ response.site = "case1_next"
        /\ Len(LastTurn(sid).a) > FOLLOWUP_MIN_LEN
        /\ ~SESSIONS[sid].followup_pending

\* C4: an /answer handled at stage 6, 7 or 8 sets no follow-up, replies with no
\* follow-up question and advances the stage, whatever the oracle would say.
C4_TailNeverFollowsUp ==
    [][\A sid \in SIDS :
          (AnswerStep(sid) /\ Present(sid) /\ SESSIONS[sid].stage \in {6, 7, 8})
              => /\ ~SESSIONS'[sid].followup_pending
                 /\ response'.site # "case2_followup"
                 /\ SESSIONS'[sid].stage = SESSIONS[sid].stage + 1]_vars

\* stage 6 was answered with a text the length heuristic would follow up on
C4_Witness ==
    \E sid \in SIDS :
        /\ Present(sid) /\ client = "none"
        /\ response.op = "answer" /\ response.site = "case3_next"
        /\ SESSIONS[sid].stage = 7
        /\ Len(LastTurn(sid).a) > FOLLOWUP_MIN_LEN

\* C5: while no /answer has taken the follow-up branch, the stage and the length
\* of history both equal the number of /answer requests handled, so the stage
\* is N after exactly N requests, with N turns recorded.
C5_NoFollowupRunLength ==
    \A sid \in SIDS :
        (Present(sid) /\ followups[sid] = 0)
            => /\ SESSIONS[sid].stage = calls[sid]
               /\ Len(SESSIONS[sid].history) = calls[sid]

C5_Witness ==
    \E sid \in SIDS :
        /\ Present(sid) /\ followups[sid] = 0 /\ calls[sid] = N
        /\ SESSIONS[sid].stage = N /\ Len(SESSIONS[sid].history) = N
        /\ response.op = "answer" /\ response.done

\* C6: after /finish replies done, the session's stage is N and no follow-up
\* is pending.
C6_FinishForcesComplete ==
    \A sid \in SIDS :
        (response.op = "finish" /\ response.sid = sid /\ response.done)
            => /\ Present(sid)
               /\ SESSIONS[sid].stage = N
               /\ ~SESSIONS[sid].followup_pending

\* C7: right after /start the session is in its initial state and the reply
\* carries stage 0, total_stages N and an empty ack.
C7_StartInitialises ==
    \A sid \in SIDS :
        (response.op = "start" /\ response.sid = sid)
            => /\ Present(sid)
               /\ SESSIONS[sid].stage = 0
               /\ SESSIONS[sid].history = <<>>
               /\ ~SESSIONS[sid].followup_pending
               /\ SESSIONS[sid].driver_name = Empty
               /\ response.stage = 0
               /\ response.total_stages = N
               /\ response.ack = Empty
               /\ response.question \in pick_variant(0)

C7_Witness ==
    \E sid \in SIDS :
        /\ response.op = "start" /\ response.sid = sid
        /\ Present(sid) /\ SESSIONS[sid] = InitialState

\* C8: every /reset, the first or a repeated one, replies ok and leaves the
\* session absent from the store.
C8_ResetIdempotent ==
    \A sid \in SIDS :
        (response.op = "reset" /\ response.sid = sid)
            => /\ ~Present(sid)
               /\ response.status = 200
               /\ response.keys = {"ok"}

C8_Witness ==
    \E sid \in SIDS : response.op = "reset" /\ response.sid = sid /\ ~Present(sid)

(***************************************************************************)
(* should_follow_up applied to answers around the length threshold         *)
(***************************************************************************)
Pad(c, n) == [i \in 1..n |-> c]

\* n characters with no whitespace at either end, and (inner) one space inside
Core(n, inner) == [i \in 1..n |-> IF inner /\ n >= 3 /\ i = 2 THEN " " ELSE "x"]

CoreLens == {0} \cup ((FOLLOWUP_MIN_LEN - Margin)..(FOLLOWUP_MIN_LEN + Margin))

\* an answer and, beside it, the length of its core
OracleInputs ==
    {[text |-> Pad(c, l) \o Core(n, inner) \o Pad(c, r), core |-> n] :
        c \in WHITESPACE, l \in 0..MaxPad, r \in 0..MaxPad, n \in CoreLens, inner \in BOOLEAN}

InitOracle ==
    /\ client \in {"none", "openai"}
    /\ SESSIONS = [x \in {} |-> InitialState]
    /\ response = NoReply
    /\ calls = [x \in SIDS |-> 0]
    /\ followups = [x \in SIDS |-> 0]
    /\ fn = "none"
    /\ arg \in OracleInputs
    /\ ret = FALSE
    /\ inflight = NoRequests
    /\ asked = [x \in SIDS |-> 0]
    /\ saves = [x \in SIDS |-> 0]
    /\ followed = [x \in SIDS |-> NoFollowUps]

ApplyShouldFollowUp ==
    /\ fn = "none"
    /\ fn' = "should_follow_up"
    /\ ret' \in should_follow_up(arg.text)
    /\ UNCHANGED <<client, SESSIONS, response, calls, followups, arg, inflight, asked, saves, followed>>

NextOracle == ApplyShouldFollowUp

SpecOracle == InitOracle /\ [][NextOracle]_vars

\* C9: without a client, should_follow_up is true exactly when the answer,
\* stripped of surrounding whitespace, is longer than 40 characters.
C9_FallbackIsLengthOver40 ==
    (fn = "should_follow_up" /\ client = "none") => (ret = (arg.core > 40))

\* an answer of 40 characters inside padding that makes the raw text longer
C9_Witness ==
    /\ fn = "should_follow_up" /\ client = "none"
    /\ arg.core = 40 /\ Len(arg.text) > 40
    /\ ret = FALSE

(***************************************************************************)
(* call_recap applied to short histories                                   *)
(***************************************************************************)
RecapTexts == {Empty, <<"a">>, <<"b">>, <<"a", "\n", "b">>}

RecapTurns == {[q |-> q, a |-> a] : q \in RecapTexts, a \in RecapTexts}

RecapHistories == UNION {[1..n -> RecapTurns] : n \in 0..MaxHist}

InitRecap ==
    /\ client \in {"none", "openai"}
    /\ SESSIONS = [x \in {} |-> InitialState]
    /\ response = NoReply
    /\ calls = [x \in SIDS |-> 0]
    /\ followups = [x \in SIDS |-> 0]
    /\ fn = "none"
    /\ arg \in RecapHistories
    /\ ret = [raised |-> FALSE, title |-> Empty, recap |-> Empty]
    /\ inflight = NoRequests
    /\ asked = [x \in SIDS |-> 0]
    /\ saves = [x \in SIDS |-> 0]
    /\ followed = [x \in SIDS |-> NoFollowUps]

ApplyCallRecap ==
    /\ fn = "none"
    /\ fn' = "call_recap"
    /\ ret' \in call_recap(arg)
    /\ UNCHANGED <<client, SESSIONS, response, calls, followups, arg, inflight, asked, saves, followed>>

NextRecap == ApplyCallRecap

SpecRecap == InitRecap /\ [][NextRecap]_vars

\* t occurs in body at index p
OccursAt(body, p, t) ==
    /\ p + Len(t) - 1 <= Len(body)
    /\ \A i \in 1..Len(t) : body[p + i - 1] = t[i]

RECURSIVE EmbedsInOrder(_, _, _)
\* from index from on, body holds each turn's question and, after it, its
\* answer, one turn after the other
EmbedsInOrder(body, from, turns) ==
    \/ turns = <<>>
    \/ /\ turns # <<>>
       /\ \E p \in from..(Len(body) + 1) :
            /\ OccursAt(body, p, Head(turns).q)
            /\ \E p2 \in (p + Len(Head(turns).q))..(Len(body) + 1) :
                 /\ OccursAt(body, p2, Head(turns).a)
                 /\ EmbedsInOrder(body, p2 + Len(Head(turns).a), Tail(turns))

\* C10: without a client, call_recap returns, with the fixed title, a body that
\* holds every turn's question followed by its answer, in history order.
C10_FallbackRecapHoldsEveryTurn ==
    (fn = "call_recap" /\ client = "none")
        => /\ ~ret.raised
           /\ ret.title = Lit("Race Day Recap")
           /\ EmbedsInOrder(ret.recap, 1, arg)

C10_Witness ==
    /\ fn = "call_recap" /\ client = "none"
    /\ Len(arg) = 2
    /\ arg[1] = [q |-> <<"a", "\n", "b">>, a |-> Empty]
    /\ arg[2] = [q |-> <<"b">>, a |-> <<"a">>]
    /\ ~ret.raised

(***************************************************************************)
(* Claims C11..C20                                                         *)
(***************************************************************************)
IntroStage == CHOOSE i \in 0..(N - 1) : StageAt(i).id = "intro"

\* C11: a stored name is never changed by /answer; /answer changes the name
\* only from empty to non-empty, and only while it handles an answer submitted
\* at the intro stage.
C11_NameSetOnceAtIntro ==
    [][\A sid \in SIDS :
         (AnswerStep(sid) /\ SESSIONS'[sid].driver_name # Before(sid).driver_name)
             => /\ Before(sid).driver_name = Empty
                /\ SESSIONS'[sid].driver_name # Empty
                /\ Before(sid).stage = IntroStage]_vars

\* a stored name has survived a second answer submitted at the intro stage
\* (the reply to the intro stage's follow-up) and the answers after it
C11_Witness ==
    \E sid \in SIDS :
        /\ Present(sid)
        /\ response.op = "answer" /\ response.sid = sid
        /\ SESSIONS[sid].driver_name # Empty
        /\ SESSIONS[sid].stage > IntroStage + 1
        /\ followups[sid] >= 1
        /\ Len(SESSIONS[sid].history) > SESSIONS[sid].stage

\* the answer of the scenario, as the handler records it
AlexAnswer == Strip(ShortAnswer)

Alex == <<"A", "l", "e", "x">>

\* C12: without a client, an /answer step that handles "My name is Alex,
\* driving a Civic" at the intro stage of a session with no stored name leaves
\* driver_name equal to "Alex", the result of _regex_name_guess on that answer.
C12_IntroAnswerStoresAlex ==
    [][\A sid \in SIDS :
         ( /\ client = "none"
           /\ AnswerStep(sid)
           /\ Before(sid).stage = IntroStage
           /\ Before(sid).driver_name = Empty
           /\ LastTurn(sid)'.a = AlexAnswer )
             => /\ SESSIONS'[sid].driver_name = Alex
                /\ SESSIONS'[sid].driver_name = _regex_name_guess(AlexAnswer)]_vars

\* without a client the session has been started, has answered the event
\* stage, and has just answered the intro stage with the scenario's sentence
C12_Witness ==
    \E sid \in SIDS :
        /\ client = "none"
        /\ Present(sid)
        /\ response.op = "answer" /\ response.sid = sid /\ ~response.absent_before
        /\ calls[sid] = 2
        /\ SESSIONS[sid].stage = IntroStage + 1
        /\ LastTurn(sid).a = AlexAnswer
        /\ SESSIONS[sid].driver_name = Alex

(***************************************************************************)
(* Two /answer requests in flight.  SESSIONS is a module-level dict that   *)
(* answer() reads and writes without a lock, and the server hands every    *)
(* request to a thread of its own, so the statements of two handlers       *)
(* interleave.  One step is one group of statements of answer().           *)
(***************************************************************************)
MaxRequests == 3      \* /answer requests accepted in one run

Accepted == Cardinality({t \in Threads : inflight[t].pc \in {"read", "recorded", "named"}})

\* lines 924-936: the body is parsed, the state fetched, stage and
\* followup_pending copied into locals, last_q chosen
Receive(t, sid, raw_answer, raw_question) ==
    LET S == ensure_state(SESSIONS, sid)
        state == S[sid]
    IN  /\ inflight[t].pc \in {"idle", "done"}
        /\ calls[sid] + Accepted < MaxRequests
        /\ \E v \in pick_variant(state.stage) :
             inflight' = [inflight EXCEPT ![t] =
                             [pc |-> "read", sid |-> sid,
                              user_answer |-> Strip(raw_answer),
                              last_q |-> last_question(state.stage, Strip(raw_question), v),
                              stage |-> state.stage,
                              followup_pending |-> state.followup_pending,
                              wrote |-> "nothing"]]
        /\ SESSIONS' = S
        /\ UNCHANGED <<client, response, calls, followups, fn, arg, ret, asked, saves, followed>>

\* line 938: the turn is appended to the list the session holds now
Record(t) ==
    LET l == inflight[t] IN
    /\ l.pc = "read"
    /\ SESSIONS' = [SESSIONS EXCEPT ![l.sid].history = Recorded(@, l.last_q, l.user_answer)]
    /\ inflight' = [inflight EXCEPT ![t].pc = "recorded"]
    /\ UNCHANGED <<client, response, calls, followups, fn, arg, ret, asked, saves, followed>>

\* lines 940-944: the intro test uses the stage read at entry and the name
\* the session holds now
ExtractName(t) ==
    LET l == inflight[t] IN
    /\ l.pc = "recorded"
    /\ \E name \in NameOutcomes([SESSIONS[l.sid] EXCEPT !.stage = l.stage], l.user_answer) :
         SESSIONS' = [SESSIONS EXCEPT ![l.sid].driver_name = IF name # Empty THEN name ELSE @]
    /\ inflight' = [inflight EXCEPT ![t].pc = "named"]
    /\ UNCHANGED <<client, response, calls, followups, fn, arg, ret, asked, saves, followed>>

\* lines 946-995: the branch is chosen from the locals read at entry, and
\* writes its fields into the state the session holds now
Decide(t) ==
    LET l == inflight[t]
        sid == l.sid
        next_stage == NextStage(l.stage)
        advanced == [SESSIONS[sid] EXCEPT !.followup_pending = FALSE, !.stage = next_stage]
    IN  /\ l.pc = "named"
        /\ IF l.followup_pending
           THEN /\ IF next_stage >= N
                   THEN Complete(sid, SESSIONS, advanced, "case1_done", TRUE)
                   ELSE Proceed(sid, SESSIONS, advanced, "case1_next", TRUE)
                /\ inflight' = [inflight EXCEPT ![t].pc = "done", ![t].wrote = "stage"]
                /\ UNCHANGED followups
           ELSE \/ /\ allow_followup(l.stage)
                   /\ TRUE \in should_follow_up(l.user_answer)
                   /\ \E f \in call_followup(l.last_q, l.user_answer) :
                        IF f.raised
                        THEN /\ UNCHANGED SESSIONS
                             /\ response' = Failure("answer", sid, "generation")
                             /\ inflight' = [inflight EXCEPT ![t].pc = "done"]
                        ELSE /\ SESSIONS' = [SESSIONS EXCEPT ![sid].followup_pending = TRUE]
                             /\ \E ack_line \in call_followup_ack(l.user_answer, f.question) :
                                  response' = TurnReply("answer", sid, "case2_followup", ack_line,
                                                        f.question, l.stage)
                             /\ inflight' = [inflight EXCEPT ![t].pc = "done",
                                                             ![t].wrote = "followup_pending"]
                   /\ followups' = [followups EXCEPT ![sid] = @ + 1]
                \/ /\ ~allow_followup(l.stage) \/ FALSE \in should_follow_up(l.user_answer)
                   /\ IF next_stage >= N
                      THEN Complete(sid, SESSIONS, advanced, "case3_done", FALSE)
                      ELSE Proceed(sid, SESSIONS, advanced, "case3_next", FALSE)
                   /\ inflight' = [inflight EXCEPT ![t].pc = "done", ![t].wrote = "stage"]
                   /\ UNCHANGED followups
        /\ calls' = [calls EXCEPT ![sid] = @ + 1]
        /\ UNCHANGED <<client, fn, arg, ret, asked, saves, followed>>

\* the state /start leaves: every session of the run has been started
InitConcurrent ==
    /\ client \in {"none", "openai"}
    /\ SESSIONS = [x \in SIDS |-> InitialState]
    /\ \E sid \in SIDS, q \in pick_variant(0) :
         response = StartReply(sid, q, 0)
    /\ calls = [x \in SIDS |-> 0]
    /\ followups = [x \in SIDS |-> 0]
    /\ fn = "none"
    /\ arg = Empty
    /\ ret = Empty
    /\ inflight = NoRequests
    /\ asked = [x \in SIDS |-> 0]
    /\ saves = [x \in SIDS |-> 0]
    /\ followed = [x \in SIDS |-> NoFollowUps]

NextConcurrent ==
    \E t \in Threads :
        \/ \E sid \in SIDS, a \in Answers, q \in Questions : Receive(t, sid, a, q)
        \/ Record(t)
        \/ ExtractName(t)
        \/ Decide(t)

SpecConcurrent == InitConcurrent /\ [][NextConcurrent]_vars

\* C13: the mutations of one session are linearized: two /answer requests on
\* one session never both read the same stage at entry and both write that
\* stage plus one.
C13_NoLostStageAdvance ==
    \A t1, t2 \in Threads :
        ( /\ t1 # t2
          /\ inflight[t1].pc = "done" /\ inflight[t2].pc = "done"
          /\ inflight[t1].sid = inflight[t2].sid
          /\ inflight[t1].wrote = "stage" /\ inflight[t2].wrote = "stage" )
            => inflight[t1].stage # inflight[t2].stage

\* a step that handles /answer or /finish for sid and ends in an exception
FailedStep(sid) ==
    /\ response'.op \in {"answer", "finish"}
    /\ response'.sid = sid
    /\ response'.status = 500

\* C14: a failed /answer or /finish leaves the session's stage, history,
\* followup_pending and driver_name as they were before the request.
C14_FailedRequestChangesNothing ==
    [][\A sid \in SIDS :
         FailedStep(sid)
             => /\ SESSIONS'[sid].stage = Before(sid).stage
                /\ SESSIONS'[sid].history = Before(sid).history
                /\ SESSIONS'[sid].followup_pending = Before(sid).followup_pending
                /\ SESSIONS'[sid].driver_name = Before(sid).driver_name]_vars

\* C15: no exception of the collaborator leaves a generation call site, so
\* /answer and /finish never fail because of a generation error.
C15_NoGenerationErrorEscapes ==
    (response.op \in {"answer", "finish"} /\ response.status = 500)
        => response.error # "generation"

\* C16: when the save fails during /finish or a terminal /answer, the reply
\* still carries title and recap and reports the failed save as such.
C16_SaveFailureStillReturnsRecap ==
    (response.op \in {"answer", "finish"} /\ response.error = "persistence")
        => /\ response.status = 200
           /\ {"title", "recap"} \subseteq response.keys

\* a step that handles /answer or /finish for a sid that has no state
FirstContactStep(sid) ==
    /\ ~Present(sid)
    /\ response'.op \in {"answer", "finish"}
    /\ response'.sid = sid

\* C17 as stated: /answer or /finish for a sid with no state fails visibly
\* and creates no session.
C17_AbsentSessionIsRejected ==
    [][\A sid \in SIDS :
         FirstContactStep(sid) => (response'.status # 200 /\ ~Present(sid)')]_vars

\* C17, amended: /answer or /finish for a sid with no state creates the
\* initial state (stage 0, empty history, nothing pending, no name) and is
\* handled against it: the session exists afterwards, /finish leaves it in the
\* initial state, /answer leaves it with the one submitted turn at stage 0 or 1,
\* and the absent state is never what makes the request fail.
C17_FirstContactCreates ==
    [][\A sid \in SIDS :
         FirstContactStep(sid)
             => /\ Present(sid)'
                /\ response'.error \in {"none", "generation", "persistence"}
                /\ response'.op = "finish"
                     => SESSIONS'[sid] = [stage |-> 0, history |-> <<>>,
                                          followup_pending |-> FALSE, driver_name |-> Empty]
                /\ response'.op = "answer"
                     => /\ Len(SESSIONS'[sid].history) = 1
                        /\ SESSIONS'[sid].stage \in {0, 1}
                        /\ SESSIONS'[sid].followup_pending = (SESSIONS'[sid].stage = 0 /\ response'.status = 200)
                        /\ SESSIONS'[sid].driver_name = Empty]_vars

\* a request for a sid without state has been answered with 200 and has left a session
C17_Witness ==
    \E sid \in SIDS :
        /\ response.sid = sid
        /\ response.op \in {"answer", "finish"}
        /\ response.absent_before
        /\ response.status = 200
        /\ Present(sid)

\* C18: every session in the store has 0 <= stage <= N.
C18_StageWithinCatalogue ==
    \A sid \in SIDS : Present(sid) => (0 <= SESSIONS[sid].stage /\ SESSIONS[sid].stage <= N)

\* a step that handles /answer for sid in MAIN(i): a stage of the catalogue
\* with no follow-up pending
MainStep(sid) ==
    /\ AnswerStep(sid)
    /\ Before(sid).stage < N
    /\ ~Before(sid).followup_pending

\* the first way out of MAIN(i): a follow-up is pending at stage i and the
\* reply carries the follow-up question with stage i
FollowUpTaken(sid) ==
    /\ SESSIONS'[sid].followup_pending
    /\ SESSIONS'[sid].stage = Before(sid).stage
    /\ response'.status = 200
    /\ ~response'.done
    /\ {"question", "stage"} \subseteq response'.keys
    /\ response'.question # Empty
    /\ response'.stage = Before(sid).stage

\* the second way out of MAIN(i): stage i + 1 with nothing pending, and the
\* reply carries the question of stage i + 1, or done when i + 1 = N
Advanced(sid) ==
    /\ SESSIONS'[sid].stage = Before(sid).stage + 1
    /\ ~SESSIONS'[sid].followup_pending
    /\ response'.status = 200
    /\ IF Before(sid).stage + 1 = N
       THEN response'.done
       ELSE /\ ~response'.done
            /\ {"question", "stage"} \subseteq response'.keys
            /\ response'.stage = Before(sid).stage + 1
            /\ client = "none" => response'.question \in pick_variant(Before(sid).stage + 1)

\* C19: /answer handled in MAIN(i) does exactly one of two things: inside
\* the window (i < N - 3) with the oracle saying yes it leaves a follow-up
\* pending at stage i and replies with the follow-up question and stage i;
\* otherwise it moves to stage i + 1 with nothing pending and replies with the
\* next stage's question, or with done when i + 1 = N.  Without a client the
\* oracle is the length test on the recorded answer.
C19_MainStepFollowsUpOrAdvances ==
    [][\A sid \in SIDS :
         MainStep(sid)
             => /\ FollowUpTaken(sid) \/ Advanced(sid)
                /\ FollowUpTaken(sid) => allow_followup(Before(sid).stage)
                /\ client = "none"
                     => (FollowUpTaken(sid)
                            <=> /\ allow_followup(Before(sid).stage)
                                /\ Len(LastTurn(sid)'.a) > FOLLOWUP_MIN_LEN)]_vars

\* the turns an /answer request of the service can carry, as submitted
SubmittedTurns == {[q |-> Strip(q), a |-> Strip(a)] : q \in Questions, a \in Answers}

MaxLedgerTurns == 3   \* /answer requests recorded in one interview of the ledger
MaxSaves == 2         \* files written in one interview of the ledger

\* 1 when the reply puts a question before the subject
Issued(r) == IF r.status = 200 /\ "question" \in r.keys THEN 1 ELSE 0

\* 1 when handling the request wrote a file
Written(r) == IF r.stored THEN 1 ELSE 0

\* the follow-up counts once the reply r is sent: a reply carrying a follow-up
\* question counts for the stage it reports
FollowedAfter(f, r) ==
    IF r.status = 200 /\ r.site = "case2_followup" /\ r.stage \in DOMAIN f
    THEN [f EXCEPT ![r.stage] = @ + 1]
    ELSE f

LedgerStart(sid) ==
    /\ Start(sid)
    /\ asked' = [asked EXCEPT ![sid] = Issued(response')]
    /\ saves' = [saves EXCEPT ![sid] = 0]
    /\ followed' = [followed EXCEPT ![sid] = NoFollowUps]

LedgerReset(sid) ==
    /\ Reset(sid)
    /\ asked' = [asked EXCEPT ![sid] = 0]
    /\ saves' = [saves EXCEPT ![sid] = 0]
    /\ followed' = [followed EXCEPT ![sid] = NoFollowUps]

LedgerFinish(sid) ==
    /\ saves[sid] < MaxSaves
    /\ Finish(sid)
    /\ saves' = [saves EXCEPT ![sid] = @ + Written(response')]
    /\ UNCHANGED <<asked, followed>>

LedgerAnswer(sid, raw_answer, raw_question) ==
    /\ Turns(sid) < MaxLedgerTurns
    /\ saves[sid] < MaxSaves
    /\ Answer(sid, raw_answer, raw_question)
    /\ asked' = [asked EXCEPT ![sid] = IF @ = 0 THEN 0 ELSE @ + Issued(response')]
    /\ saves' = [saves EXCEPT ![sid] = @ + Written(response')]
    /\ followed' = [followed EXCEPT ![sid] = FollowedAfter(@, response')]

NextLedger ==
    \E sid \in SIDS :
        \/ LedgerStart(sid)
        \/ LedgerReset(sid)
        \/ LedgerFinish(sid)
        \/ \E a \in Answers, q \in Questions : LedgerAnswer(sid, a, q)

SpecLedger == Init /\ [][NextLedger]_vars

\* C21: in an interview begun by /start, when /answer has recorded the
\* answer and decides the transition, len(history) equals the number of
\* questions issued since the /start: every turn answers a question that
\* /start or an earlier /answer reply issued.
C21_HistoryMatchesQuestionsAsked ==
    [][\A sid \in SIDS :
         (AnswerStep(sid) /\ asked[sid] >= 1)
             => Len(SESSIONS'[sid].history) = asked[sid]]_vars

(***************************************************************************)
(* /answer requests that echo no question: the key "question" is absent    *)
(* from the body, or its value is blank.                                   *)
(***************************************************************************)
MaxBlankTurns == 2    \* /answer requests recorded in one run

\* payload.get("question", "") for an absent key, and a value of spaces
BlankQuestions == {Empty, <<" ", " ">>}

NextBlank ==
    \E sid \in SIDS :
        \/ Start(sid) /\ NoLedger
        \/ \E a \in Answers, q \in BlankQuestions \cup Questions :
             Turns(sid) < MaxBlankTurns /\ Answer(sid, a, q) /\ NoLedger

SpecBlank == Init /\ [][NextBlank]_vars

\* C22: an /answer that echoes no question at stage i < N records, as the
\* question of the appended turn, the first variant of stage i and no other.
C22_BlankQuestionRecordsFirstVariant ==
    [][\A sid \in SIDS :
         ( /\ AnswerStep(sid)
           /\ Before(sid).stage < N
           /\ LastTurn(sid)'.q \notin {Strip(q) : q \in Questions} )
             => LastTurn(sid)'.q = StageAt(Before(sid).stage).variants[1]]_vars

\* a step that handles /finish for sid
FinishStep(sid) == response'.op = "finish" /\ response'.sid = sid

\* a step in which /answer brings sid from a stage of the catalogue to stage N
TerminalAnswerStep(sid) ==
    /\ AnswerStep(sid)
    /\ Before(sid).stage < N
    /\ SESSIONS'[sid].stage >= N

\* C23: completion keeps the transcript: /finish leaves history exactly as
\* it was, and after /finish or a terminal /answer the history holds, in
\* order, every turn recorded since the session's state was initialised.
C23_CompletionKeepsTranscript ==
    [][\A sid \in SIDS :
         /\ FinishStep(sid)
              => (Present(sid)' /\ SESSIONS'[sid].history = Before(sid).history)
         /\ (FinishStep(sid) \/ TerminalAnswerStep(sid))
              => /\ Len(SESSIONS'[sid].history) = calls'[sid]
                 /\ SubSeq(SESSIONS'[sid].history, 1, Len(Before(sid).history))
                        = Before(sid).history]_vars

\* /finish has replied with the recap while a question was in progress, and
\* the two turns recorded before it are still there
C23_Witness ==
    \E sid \in SIDS :
        /\ Present(sid)
        /\ response.op = "finish" /\ response.sid = sid /\ response.status = 200
        /\ SESSIONS[sid].stage < N
        /\ calls[sid] = 2
        /\ Len(SESSIONS[sid].history) = 2

(***************************************************************************)
(* should_follow_up applied with a collaborator whose behaviour is given   *)
(***************************************************************************)
FailingInputs ==
    {[text |-> i.text, core |-> i.core, reply |-> r] :
        i \in OracleInputs, r \in COLLABORATOR_REPLIES}

InitFailing ==
    /\ client \in {"none", "openai"}
    /\ SESSIONS = [x \in {} |-> InitialState]
    /\ response = NoReply
    /\ calls = [x \in SIDS |-> 0]
    /\ followups = [x \in SIDS |-> 0]
    /\ fn = "none"
    /\ arg \in FailingInputs
    /\ ret = FALSE
    /\ inflight = NoRequests
    /\ asked = [x \in SIDS |-> 0]
    /\ saves = [x \in SIDS |-> 0]
    /\ followed = [x \in SIDS |-> NoFollowUps]

ApplyShouldFollowUpGiven ==
    /\ fn = "none"
    /\ fn' = "should_follow_up"
    /\ ret' = should_follow_up_given(arg.text, arg.reply)
    /\ UNCHANGED <<client, SESSIONS, response, calls, followups, arg, inflight, asked, saves, followed>>

NextFailing == ApplyShouldFollowUpGiven

SpecFailing == InitFailing /\ [][NextFailing]_vars

\* C24: a collaborator call that raises or replies malformed gives the call
\* site's adapter-unavailable fallback: should_follow_up then returns the
\* length test len(trim(answer)) > 40.
C24_FailingOracleIsLengthTest ==
    (fn = "should_follow_up" /\ client = "openai" /\ arg.reply \in {"raises", "malformed"})
        => (ret = (Len(Strip(arg.text)) > FOLLOWUP_MIN_LEN))

(***************************************************************************)
(* Two browser sessions: the handlers of Spec for two session identifiers  *)
(***************************************************************************)
MaxIsolationTurns == 2    \* /answer requests recorded per session

TwoSids == {"s1", "s2"}

InitIsolation ==
    /\ client \in {"none", "openai"}
    /\ SESSIONS = [x \in {} |-> InitialState]
    /\ response = NoReply
    /\ calls = [x \in TwoSids |-> 0]
    /\ followups = [x \in TwoSids |-> 0]
    /\ fn = "none"
    /\ arg = Empty
    /\ ret = Empty
    /\ inflight = NoRequests
    /\ asked = [x \in TwoSids |-> 0]
    /\ saves = [x \in TwoSids |-> 0]
    /\ followed = [x \in TwoSids |-> NoFollowUps]

NextIsolation ==
    \E sid \in TwoSids :
        \/ Start(sid) /\ NoLedger
        \/ Reset(sid) /\ NoLedger
        \/ Finish(sid) /\ NoLedger
        \/ \E a \in Answers, q \in Questions :
             Turns(sid) < MaxIsolationTurns /\ Answer(sid, a, q) /\ NoLedger

SpecIsolation == InitIsolation /\ [][NextIsolation]_vars

\* C25: an operation on one session identifier leaves every other session
\* as it was: present with the same stage, history, followup_pending and
\* driver_name, or absent.
C25_OtherSessionsUntouched ==
    [][\A A, B \in TwoSids :
         (A # B /\ response'.sid = A)
             => /\ Present(B)' = Present(B)
                /\ Present(B) => SESSIONS'[B] = SESSIONS[B]]_vars

\* the last request was an /answer for s1, handled while s2 held two turns
\* of its own at another stage
C25_Witness ==
    /\ Present("s1") /\ Present("s2")
    /\ response.op = "answer" /\ response.sid = "s1"
    /\ Len(SESSIONS["s1"].history) = 1
    /\ Len(SESSIONS["s2"].history) = 2
    /\ SESSIONS["s1"].stage # SESSIONS["s2"].stage

\* C26: a completion creates exactly one recap artifact: call_recap is
\* invoked once for it, and the title and recap of the reply are the
\* artifact that went into the saved file.
C26_OneArtifactPerCompletion ==
    (response.op \in {"answer", "finish"} /\ response.status = 200 /\ response.done)
        => /\ response.recaps = 1
           /\ response.stored
           /\ response.stored_title = response.title
           /\ response.stored_recap = response.recap


\* C27: between a /start and the next /start or /reset of the same session,
\* no sequence of /answer and /finish requests stores the transcript more
\* than once: at most one file is written per interview.
C27_StoredOncePerInterview ==
    \A sid \in SIDS : asked[sid] > 0 => saves[sid] <= 1


(***************************************************************************)
(* The service without a collaborator, answered with texts of every kind   *)
(***************************************************************************)
MaxAbsentTurns == 3   \* /answer requests recorded in one run

AbsentAnswers == {ShortAnswer, LongAnswer, QuotedAnswer}

InitAbsent == Init /\ client = "none"

NextAbsent ==
    \E sid \in SIDS :
        \/ Start(sid) /\ NoLedger
        \/ Finish(sid) /\ NoLedger
        \/ \E a \in AbsentAnswers, q \in Questions :
             Turns(sid) < MaxAbsentTurns /\ Answer(sid, a, q) /\ NoLedger

SpecAbsent == InitAbsent /\ [][NextAbsent]_vars

\* C28: without a collaborator no fallback output is an empty string: the
\* question and the acknowledgment of every /answer reply, and the title and
\* the recap of every completion (a terminal /answer or /finish from any
\* state, also directly after /start), are non-empty, whatever the answers.
C28_AbsentFallbacksNonEmpty ==
    (client = "none" /\ response.op \in {"answer", "finish"} /\ response.status = 200)
        => /\ ~response.done => (response.question # Empty /\ response.ack # Empty)
           /\ response.done => (response.title # Empty /\ response.recap # Empty)


\* the step replied to sid with a follow-up question
FollowUpIssued(sid) ==
    /\ response'.op = "answer" /\ response'.sid = sid /\ response'.status = 200
    /\ response'.site = "case2_followup"
    /\ response'.question # Empty

\* the step recorded no answer and issued no question for sid: the request
\* failed and left the session as it was
NothingAnswered(sid) ==
    /\ Present(sid)
    /\ SESSIONS'[sid] = SESSIONS[sid]
    /\ response'.status # 200

\* C29: with requests handled one at a time, followup_pending is set only at
\* a stage inside the eligibility window (stage < N - 3) and only while the
\* question issued last is a follow-up that has not been answered: the flag
\* is set by the step that issues the follow-up and survives only steps that
\* record no answer and issue no question.
C29_PendingOnlyForOpenFollowUp ==
    [][\A sid \in SIDS :
          (Present(sid)' /\ SESSIONS'[sid].followup_pending)
              => /\ SESSIONS'[sid].stage < N - 3
                 /\ \/ FollowUpIssued(sid)
                    \/ NothingAnswered(sid) /\ SESSIONS[sid].followup_pending]_vars

\* a follow-up is pending at the last eligible stage
C29_Witness ==
    \E sid \in SIDS :
        /\ Present(sid)
        /\ SESSIONS[sid].followup_pending
        /\ SESSIONS[sid].stage = N - 4
        /\ response.site = "case2_followup"


(***************************************************************************)
(* One interview run: /start, then /answer until the storyline is complete *)
(***************************************************************************)
MaxRunCalls == 16     \* /answer requests in one run

\* the session's stage has reached the end of the storyline
Completed(sid) == Present(sid) /\ SESSIONS[sid].stage >= N

NextRun ==
    \E sid \in SIDS :
        \/ ~Present(sid) /\ Start(sid) /\ NoLedger
        \/ \E a \in Answers, q \in Questions :
             /\ Present(sid) /\ ~Completed(sid)
             /\ calls[sid] < MaxRunCalls
             /\ Answer(sid, a, q)
             /\ NoLedger

SpecRun == Init /\ [][NextRun]_vars

\* C30: the interview ends within a bounded number of turns: in the tail
\* (stage >= N - 3) every /answer request advances the stage by one, so
\* N - stage requests complete it; and counted from /start, the storyline is
\* complete after no fewer than N and no more than 2N - 3 /answer requests,
\* whatever the oracle answers.
C30_CompleteWithinBoundedTurns ==
    [][\A sid \in SIDS :
          (Present(sid) /\ response'.op = "answer")
              => /\ SESSIONS[sid].stage >= N - 3 => SESSIONS'[sid].stage = SESSIONS[sid].stage + 1
                 /\ Completed(sid)' => calls'[sid] >= N
                 /\ calls'[sid] >= 2 * N - 3 => Completed(sid)']_vars


\* C31: within one interview, from a /start to the next /start or /reset of
\* the session, at most one follow-up question is issued for any stage, under
\* every sequence of /answer and /finish requests.
C31_OneFollowUpPerStage ==
    \A sid \in SIDS :
        asked[sid] > 0 => \A i \in DOMAIN followed[sid] : followed[sid][i] <= 1

====
